---------------------------- MODULE Spec2Model ----------------------------
(***************************************************************************)
(* A model of the track-meet result converter: parse_file.py (the line     *)
(* classifiers, the two result-line parsers, the fuzzy normalizers and the *)
(* parse_results loop) and main.py (the POST handler around it).           *)
(*                                                                         *)
(* Text is modelled at the level of whitespace-separated tokens.  A line   *)
(* is a sequence of segments, a segment a non-empty sequence of tokens:    *)
(* tokens of one segment are one space apart, segments are two spaces      *)
(* apart.  A field value (a name, a school, a mark) is the sequence of its *)
(* tokens, <<>> being the empty string.  The regular expressions of the    *)
(* source are modelled on the token alphabet Tok below, where each token   *)
(* either matches a character class as a whole or not at all.              *)
(***************************************************************************)
EXTENDS Integers, Sequences, FiniteSets, TLC

\* ------------------------------------------------------------------------
\* Bounds of the model
\* ------------------------------------------------------------------------

\* lines of one uploaded file
MaxLines == 3
\* tokens of a generated result line (specification SpecParse)
MaxToks == 4
\* lines of one uploaded file when two requests run (specification SpecConc)
MaxConcLines == 2
\* tokens of a generated header line (specification SpecHeader)
MaxHeaderToks == 4

\* ------------------------------------------------------------------------
\* The token alphabet and the character classes of the source's patterns
\* ------------------------------------------------------------------------

\* \d+ : tokens made of digits only
DigitsTok == {"1", "45"}

\* the words the classifiers look for
ClassifierTok == {"Event", "Boys", "Girls", "Finals", "Prelims", "Semis",
                  "Place", "Name", "School", "Time", "Year", "=====", "Page",
                  "COMPLETE", "RESULTS"}

\* plain words: event names, athlete names, school names
WordTok == {"Dash", "Mile", "Quux", "John", "Smith", "Lincoln", "HS", "RELAY", "abc"}

\* words with punctuation: "Smith," (a comma), "St/M" (a slash)
PunctTok == {"Smith,", "St/M"}

\* numbers with a decimal point: a time, a signed wind reading
DecimalTok == {"9.58", "+1.5"}

Tok == DigitsTok \cup ClassifierTok \cup WordTok \cup PunctTok \cup DecimalTok

\* [\w\-\'\.]+ : word characters, hyphen, apostrophe, period
WordClassTok == (DigitsTok \cup ClassifierTok \cup WordTok \cup {"9.58"}) \ {"====="}

\* [\w\-\'\.\s,]+ : the name class of the fallback patterns
NameClassTok == WordClassTok \cup {"Smith,"}

\* [\w\s\-\'\.\/\(\)]+ : the school class of the fallback patterns
SchoolClassTok == WordClassTok \cup {"St/M"}

\* the mark alternatives of fallback patterns 1 and 2
MarkTok == {"9.58"}

\* the mark alternatives of fallback pattern 3 (times only)
Mark3Tok == {"9.58"}

\* [+-]?\d+\.\d+ : a signed decimal
WindTok == {"9.58", "+1.5"}

\* (\d+|--?) : the place of the fallback patterns
PlaceTok == DigitsTok

\* "RELAY" in line.upper()
RelayTok == {"RELAY"}

\* ------------------------------------------------------------------------
\* Lines
\* ------------------------------------------------------------------------

RECURSIVE Flat(_)
\* line.split(): the tokens of a line, in order
Flat(line) == IF line = <<>> THEN <<>> ELSE Head(line) \o Flat(Tail(line))

RECURSIVE WideAfter(_)
\* the positions k of Flat(line) whose token is followed by a two-space gap
WideAfter(line) ==
  IF Len(line) <= 1 THEN {}
  ELSE {Len(Head(line))} \cup {Len(Head(line)) + k : k \in WideAfter(Tail(line))}

AllIn(s, S) == \A k \in DOMAIN s : s[k] \in S

Min(S) == CHOOSE x \in S : \A y \in S : x <= y

\* ------------------------------------------------------------------------
\* Line classifiers
\* ------------------------------------------------------------------------

NoMatch == [matched |-> FALSE, groups |-> <<>>]

\* tokens equal to "Event", "Boys" or "Girls" whatever the case
EventWordTok == {"Event"}
BoysGirlsTok == {"Boys", "Girls"}
\* the tokens at which (\s+Division|\s+Finals|\s+Preliminaries|\s+Semi-Finals) stops the event text
StopTok == {"Finals"}

\* event_patterns[0]: Event\s+\d+\s+(Boys|Girls)\s+(.+), searched anywhere in the line
EventPattern1(t) ==
  LET K == {k \in 1..(Len(t) - 3) :
              t[k] \in EventWordTok /\ t[k+1] \in DigitsTok /\ t[k+2] \in BoysGirlsTok}
  IN IF K = {} THEN NoMatch
     ELSE LET k == Min(K)
          IN [matched |-> TRUE, groups |-> << <<t[k+2]>>, SubSeq(t, k+3, Len(t)) >>]

\* event_patterns[1]: (Boys?|Girls?)\s+(.+?)(?:\s+Division|\s+Finals|...|$)
EventPattern2(t) ==
  LET K == {k \in 1..(Len(t) - 1) : t[k] \in BoysGirlsTok}
  IN IF K = {} THEN NoMatch
     ELSE LET k == Min(K)
              e == Min({j \in (k+1)..Len(t) : j = Len(t) \/ t[j+1] \in StopTok})
          IN [matched |-> TRUE, groups |-> << <<t[k]>>, SubSeq(t, k+1, e) >>]

\* event_patterns[2]: ^\s*(.+?)\s+(Boys?|Girls?)
EventPattern3(t) ==
  LET K == {k \in 2..Len(t) : t[k] \in BoysGirlsTok}
  IN IF K = {} THEN NoMatch
     ELSE LET k == Min(K)
          IN [matched |-> TRUE, groups |-> << SubSeq(t, 1, k-1), <<t[k]>> >>]

\* the first of the three event patterns that matches the line
EventMatch(t) ==
  IF EventPattern1(t).matched THEN EventPattern1(t)
  ELSE IF EventPattern2(t).matched THEN EventPattern2(t)
  ELSE EventPattern3(t)

\* any(word in line_lower for word in [...]) over the tokens of the alphabet
MaleWordTok == {"Boys"}
FemaleWordTok == {"Girls"}

extract_gender_from_event(t) ==
  IF \E k \in DOMAIN t : t[k] \in MaleWordTok THEN "M"
  ELSE IF \E k \in DOMAIN t : t[k] \in FemaleWordTok THEN "F"
  ELSE ""

\* groups[..].lower() in ['boys', 'boy'] / ['girls', 'girl']
IsBoys(g) == g \in {<<"Boys">>}
IsGirls(g) == g \in {<<"Girls">>}

\* the gender and the raw event name the event branch derives from a match
EventFields(t, groups) ==
  IF Len(groups) = 2
  THEN IF IsBoys(groups[1]) THEN [gender |-> "M", raw |-> groups[2]]
       ELSE IF IsGirls(groups[1]) THEN [gender |-> "F", raw |-> groups[2]]
       ELSE IF IsBoys(groups[2]) THEN [gender |-> "M", raw |-> groups[1]]
       ELSE IF IsGirls(groups[2]) THEN [gender |-> "F", raw |-> groups[1]]
       ELSE [gender |-> extract_gender_from_event(t), raw |-> t]
  ELSE [gender |-> extract_gender_from_event(t), raw |-> t]

\* tokens containing "final", "semi", "prelim"
FinalTok == {"Finals"}
SemiTok == {"Semis"}
PrelimTok == {"Prelims"}

extract_round_from_line(t) ==
  LET has(S) == \E k \in DOMAIN t : t[k] \in S
  IN IF has(FinalTok) /\ ~has(SemiTok) THEN "Final"
     ELSE IF has(SemiTok) THEN "Semi-Final"
     ELSE IF has(PrelimTok) THEN "Prelim"
     ELSE ""

\* the header indicators a token contains
Indicators(tok) ==
  CASE tok = "Place" -> {"place"}
    [] tok = "Name" -> {"name"}
    [] tok = "School" -> {"school"}
    [] tok = "Time" -> {"time"}
    [] tok = "Year" -> {"year"}
    [] tok = "Finals" -> {"finals"}
    [] OTHER -> {}

\* tokens that start with a digit
DigitStartTok == DigitsTok \cup {"9.58"}

is_header_line(t) ==
  LET indicator_count == Cardinality(UNION {Indicators(t[k]) : k \in DOMAIN t})
  IN /\ indicator_count >= 2
     /\ ~(t # <<>> /\ t[1] \in DigitStartTok)
     /\ Len(t) >= 3

\* the test of lines 618-621 on a non-empty line
IsDivider(line) ==
  LET t == Flat(line)
  IN \/ t[1] \in {"====="}
     \/ \E s \in DOMAIN line : \E k \in 1..(Len(line[s]) - 1) :
          line[s][k] = "COMPLETE" /\ line[s][k+1] = "RESULTS"
     \/ \E k \in DOMAIN t : t[k] = "Page"
     \/ t[1] \in EventWordTok
     \/ Len(t) < 3

\* the field a header token names, "" when it names none
HeaderField(tok) ==
  CASE tok = "Place" -> "place"
    [] tok = "Name" -> "name"
    [] tok = "School" -> "school"
    [] tok \in {"Time", "Finals"} -> "mark"
    [] tok = "Year" -> "grade"
    [] OTHER -> ""

RECURSIVE ColumnOrderFrom(_, _, _)
\* the loop of identify_column_order from token i on (positions count from 0)
ColumnOrderFrom(headers, i, column_map) ==
  IF i > Len(headers) THEN column_map
  ELSE LET f == HeaderField(headers[i])
       IN IF f = "" THEN ColumnOrderFrom(headers, i + 1, column_map)
          ELSE ColumnOrderFrom(headers, i + 1,
                 [c \in DOMAIN column_map \cup {f} |->
                    IF c = f THEN i - 1 ELSE column_map[c]])

identify_column_order(t) == ColumnOrderFrom(t, 1, <<>>)

\* a faulty order of the tests, the header test before the round test
ClassifyHeaderFirst(line) ==
  LET t == Flat(line)
  IN IF t = <<>> THEN "empty"
     ELSE IF EventMatch(t).matched THEN "event"
     ELSE IF is_header_line(t) THEN "header"
     ELSE IF extract_round_from_line(t) # "" THEN "round"
     ELSE IF IsDivider(line) THEN "noise"
     ELSE "result"

\* how parse_results classifies a line: the order of its tests
Classify(line) ==
  LET t == Flat(line)
  IN IF t = <<>> THEN "empty"
     ELSE IF EventMatch(t).matched THEN "event"
     ELSE IF extract_round_from_line(t) # "" THEN "round"
     ELSE IF is_header_line(t) THEN "header"
     ELSE IF IsDivider(line) THEN "noise"
     ELSE "result"

\* ------------------------------------------------------------------------
\* Result line parsers
\* ------------------------------------------------------------------------

\* the result dictionary both parsers start from
EmptyResult ==
  [place |-> <<>>, name |-> <<>>, grade |-> <<>>, school |-> <<>>, mark |-> <<>>,
   heat |-> <<>>, wind |-> <<>>, points |-> <<>>, review |-> FALSE]

\* int(token) of a digits token
TokValue(tok) == IF tok = "1" THEN 1 ELSE 45

\* the largest number taken for a grade
GradeMax == 12

\* tokens of word characters followed by one comma
CommaEndTok == {"Smith,"}

\* column_patterns[col] matched against one segment
SegMatches(col, seg) ==
  CASE col = "place" -> Len(seg) = 1 /\ seg[1] \in DigitsTok
    [] col = "name" -> \/ (seg # <<>> /\ AllIn(seg, WordClassTok))
                       \/ (Len(seg) = 2 /\ seg[1] \in CommaEndTok /\ seg[2] \in WordClassTok)
    [] col = "grade" -> Len(seg) = 1 /\ seg[1] \in DigitsTok
    [] col = "school" -> seg # <<>> /\ AllIn(seg, SchoolClassTok)
    [] col = "mark" -> Len(seg) = 1 /\ seg[1] \in MarkTok
    [] col = "heat" -> Len(seg) = 1 /\ seg[1] \in DigitsTok
    [] col = "wind" -> Len(seg) = 1 /\ seg[1] \in WindTok
    [] col = "points" -> Len(seg) = 1 /\ seg[1] \in DigitsTok
    [] col = "lane" -> Len(seg) = 1 /\ seg[1] \in DigitsTok
    [] OTHER -> FALSE

RECURSIVE SortedColumns(_)
\* sorted(column_map.items(), key=position): the fields by position
SortedColumns(column_map) ==
  IF DOMAIN column_map = {} THEN <<>>
  ELSE LET c == CHOOSE x \in DOMAIN column_map :
                  \A y \in DOMAIN column_map : column_map[x] <= column_map[y]
       IN <<c>> \o SortedColumns([x \in DOMAIN column_map \ {c} |-> column_map[x]])

\* the recovery search: the shortest prefix of the segment's tokens that
\* matches the field's pattern, 0 when none does
RecoverySplit(col, segment) ==
  LET J == {j \in 1..(Len(segment) - 1) : SegMatches(col, SubSeq(segment, 1, j))}
  IN IF J = {} THEN 0 ELSE Min(J)

RECURSIVE ColumnWalk(_, _, _, _, _)
\* the while loop of parse_result_line_with_columns; i and current_index
\* count from 0 as in the source
ColumnWalk(expected_fields, i, segments, current_index, result) ==
  IF ~(i < Len(expected_fields) /\ current_index < Len(segments))
  THEN [i |-> i, current_index |-> current_index, segments |-> segments, result |-> result]
  ELSE LET col == expected_fields[i + 1]
           segment == segments[current_index + 1]
       IN IF SegMatches(col, segment)
          THEN ColumnWalk(expected_fields, i + 1, segments, current_index + 1,
                          [result EXCEPT ![col] = segment])
          ELSE IF RecoverySplit(col, segment) = 0
          THEN [i |-> i, current_index |-> current_index, segments |-> segments,
                result |-> [result EXCEPT !.review = TRUE]]
          ELSE ColumnWalk(expected_fields, i + 1,
                          [segments EXCEPT ![current_index + 1] =
                             SubSeq(segment, RecoverySplit(col, segment) + 1, Len(segment))],
                          current_index,
                          [result EXCEPT ![col] = SubSeq(segment, 1, RecoverySplit(col, segment))])

RECURSIVE AssignLeftovers(_, _, _)
\* the loop over expected_fields[i:] that hands out the leftover segments
AssignLeftovers(fields, leftovers, result) ==
  IF fields = <<>> \/ leftovers = <<>> THEN result
  ELSE LET col == Head(fields)
           segment == Head(leftovers)
       IN AssignLeftovers(Tail(fields), Tail(leftovers),
            IF SegMatches(col, segment) THEN [result EXCEPT ![col] = segment]
            ELSE [result EXCEPT !.review = TRUE])

\* the final validation: place and mark are mandatory
FinalValidation(result) ==
  IF result.place = <<>> \/ result.mark = <<>> THEN [result EXCEPT !.review = TRUE]
  ELSE result

\* what follows the while loop, w being the state it ended in
AfterWalk(expected_fields, w) ==
  FinalValidation(
    AssignLeftovers(SubSeq(expected_fields, w.i + 1, Len(expected_fields)),
                    SubSeq(w.segments, w.current_index + 1, Len(w.segments)),
                    w.result))

\* the walk over the fields in the order of their positions
WalkColumns(expected_fields, segments) ==
  AfterWalk(expected_fields, ColumnWalk(expected_fields, 0, segments, 0, EmptyResult))

\* t is line.split(), segments the line split at its two-space gaps
ParseWithColumns(t, segments, column_map) ==
  IF t = <<>> \/ t[1] \in {"====="} THEN [EmptyResult EXCEPT !.review = TRUE]
  ELSE IF Len(t) < 3 THEN [EmptyResult EXCEPT !.review = TRUE]
  ELSE WalkColumns(SortedColumns(column_map), segments)

parse_result_line_with_columns(line, column_map) ==
  ParseWithColumns(Flat(line), line, column_map)

\* the tail of pattern 1 after the mark: \s*(\d+)?\s*([+-]?\d+\.\d+)?\s*(\d+)?\s*$
\* heat, wind and points are taken greedily, in this order
Tail1(u) ==
  LET h == IF Len(u) >= 1 /\ u[1] \in DigitsTok THEN 1 ELSE 0
      w == IF Len(u) >= h + 1 /\ u[h + 1] \in WindTok THEN 1 ELSE 0
      p == IF Len(u) >= h + w + 1 /\ u[h + w + 1] \in DigitsTok THEN 1 ELSE 0
  IN [matched |-> (h + w + p = Len(u)),
      groups |-> << SubSeq(u, 1, h), SubSeq(u, h + 1, h + w),
                    SubSeq(u, h + w + 1, h + w + p) >>]

\* the tail of pattern 3 after the mark: \s*(\d+)?\s*(\d+)?\s*$
Tail3(u) ==
  [matched |-> (Len(u) <= 2 /\ AllIn(u, DigitsTok)),
   groups |-> << IF Len(u) >= 1 THEN <<u[1]>> ELSE <<>>,
                 IF Len(u) >= 2 THEN <<u[2]>> ELSE <<>> >>]

\* the least triple of a set in the order of the regex engine's search
FirstTriple(S) ==
  CHOOSE x \in S : \A y \in S :
    \/ x[1] < y[1]
    \/ (x[1] = y[1] /\ x[2] < y[2])
    \/ (x[1] = y[1] /\ x[2] = y[2] /\ x[3] <= y[3])

\* patterns[0]: place, name, optional grade, school, mark, optional heat,
\* wind, points.  A candidate <<a, o, c>> ends the (lazy) name at token a,
\* takes token a+1 as the grade (o = 0) or takes no grade across a two-space
\* gap (o = 1), and ends the (lazy) school at token c.
Pattern1School(a, o) == IF o = 0 THEN a + 2 ELSE a + 1

Pattern1Candidates(t, wide) ==
  {x \in (2..Len(t)) \X {0, 1} \X (2..Len(t)) :
     /\ t[1] \in PlaceTok
     /\ AllIn(SubSeq(t, 2, x[1]), NameClassTok)
     /\ (x[2] = 0 => (x[1] + 1 <= Len(t) /\ t[x[1] + 1] \in DigitsTok))
     /\ (x[2] = 1 => x[1] \in wide)
     /\ x[3] >= Pattern1School(x[1], x[2])
     /\ x[3] + 1 <= Len(t)
     /\ AllIn(SubSeq(t, Pattern1School(x[1], x[2]), x[3]), SchoolClassTok)
     /\ t[x[3] + 1] \in MarkTok
     /\ Tail1(SubSeq(t, x[3] + 2, Len(t))).matched}

Pattern1Groups(t, x) ==
  << <<t[1]>>, SubSeq(t, 2, x[1]),
     IF x[2] = 0 THEN <<t[x[1] + 1]>> ELSE <<>>,
     SubSeq(t, Pattern1School(x[1], x[2]), x[3]), <<t[x[3] + 1]>> >>
  \o Tail1(SubSeq(t, x[3] + 2, Len(t))).groups

\* patterns[1]: place, name, school, mark, then the rest of the line
Pattern2Candidates(t) ==
  {x \in (2..Len(t)) \X {0} \X (3..Len(t)) :
     /\ t[1] \in PlaceTok
     /\ AllIn(SubSeq(t, 2, x[1]), NameClassTok)
     /\ x[3] >= x[1] + 1
     /\ x[3] + 1 <= Len(t)
     /\ AllIn(SubSeq(t, x[1] + 1, x[3]), SchoolClassTok)
     /\ t[x[3] + 1] \in MarkTok}

Pattern2Groups(t, x) ==
  << <<t[1]>>, SubSeq(t, 2, x[1]), SubSeq(t, x[1] + 1, x[3]),
     <<t[x[3] + 1]>>, SubSeq(t, x[3] + 2, Len(t)) >>

\* patterns[2]: place, team, mark, optional heat, optional points; a
\* candidate <<c, 0, 0>> ends the (lazy) team name at token c
Pattern3Candidates(t) ==
  {x \in (2..(Len(t) - 1)) \X {0} \X {0} :
     /\ t[1] \in DigitsTok
     /\ AllIn(SubSeq(t, 2, x[1]), SchoolClassTok)
     /\ t[x[1] + 1] \in Mark3Tok
     /\ Tail3(SubSeq(t, x[1] + 2, Len(t))).matched}

Pattern3Groups(t, x) ==
  << <<t[1]>>, SubSeq(t, 2, x[1]), <<t[x[1] + 1]>> >>
  \o Tail3(SubSeq(t, x[1] + 2, Len(t))).groups

\* the index (1..3) of the first fallback pattern that matches, 0 when none
FirstOf(S1, S2, S3) ==
  IF S1 # {} THEN 1 ELSE IF S2 # {} THEN 2 ELSE IF S3 # {} THEN 3 ELSE 0

FirstPattern(t, wide) ==
  FirstOf(Pattern1Candidates(t, wide), Pattern2Candidates(t), Pattern3Candidates(t))

\* match.groups() of the first pattern that matches, <<>> when none does
GroupsOf(t, S1, S2, S3) ==
  CASE S1 # {} -> Pattern1Groups(t, FirstTriple(S1))
    [] S1 = {} /\ S2 # {} -> Pattern2Groups(t, FirstTriple(S2))
    [] S1 = {} /\ S2 = {} /\ S3 # {} -> Pattern3Groups(t, FirstTriple(S3))
    [] OTHER -> <<>>

FallbackGroups(t, wide) ==
  GroupsOf(t, Pattern1Candidates(t, wide), Pattern2Candidates(t), Pattern3Candidates(t))

RECURSIVE ScanRemaining(_, _)
\* the loop over groups[-1].strip().split(): integers fill heat, then
\* points; a signed decimal fills wind
ScanRemaining(remaining, result) ==
  IF remaining = <<>> THEN result
  ELSE ScanRemaining(Tail(remaining),
         IF Head(remaining) \in DigitsTok
         THEN IF result.heat = <<>> THEN [result EXCEPT !.heat = <<Head(remaining)>>]
              ELSE IF result.points = <<>> THEN [result EXCEPT !.points = <<Head(remaining)>>]
              ELSE result
         ELSE IF Head(remaining) \in WindTok THEN [result EXCEPT !.wind = <<Head(remaining)>>]
         ELSE result)

\* the relay branch: school, mark, heat, points from groups 1..4
RelayMapping(groups, result) ==
  [result EXCEPT !.school = groups[2],
                 !.mark = groups[3],
                 !.heat = IF Len(groups) > 3 /\ groups[4] # <<>> THEN groups[4] ELSE @,
                 !.points = IF Len(groups) > 4 /\ groups[5] # <<>> THEN groups[5] ELSE @]

\* groups[2] looks like a grade: digits, at most GradeMax
LooksLikeGrade(g) == Len(g) = 1 /\ g[1] \in DigitsTok /\ TokValue(g[1]) <= GradeMax

\* the individual branch
IndividualMapping(groups, result) ==
  ScanRemaining(
    IF Len(groups) > 4 THEN groups[Len(groups)] ELSE <<>>,
    IF Len(groups) >= 5 /\ LooksLikeGrade(groups[3])
    THEN [result EXCEPT !.name = groups[2], !.grade = groups[3],
                        !.school = groups[4], !.mark = groups[5]]
    ELSE [result EXCEPT !.name = groups[2], !.school = groups[3], !.mark = groups[4]])

\* the mapping of a match's groups to the result fields
MapGroups(groups, relay_word) ==
  IF Len(groups) >= 4
  THEN IF relay_word \/ Len(groups) = 5
       THEN RelayMapping(groups, [EmptyResult EXCEPT !.place = groups[1]])
       ELSE IndividualMapping(groups, [EmptyResult EXCEPT !.place = groups[1]])
  ELSE [EmptyResult EXCEPT !.place = groups[1]]

\* the result for match.groups(), <<>> standing for no match
ResultOfGroups(groups, relay_word) ==
  IF groups = <<>> THEN [EmptyResult EXCEPT !.review = TRUE]
  ELSE MapGroups(groups, relay_word)

\* t is line.split(), wide the positions followed by a two-space gap
ParseFallback(t, wide) ==
  IF t = <<>> \/ t[1] \in {"====="} THEN [EmptyResult EXCEPT !.review = TRUE]
  ELSE ResultOfGroups(FallbackGroups(t, wide), \E k \in DOMAIN t : t[k] \in RelayTok)

\* the regex-based parsing of parse_result_line (no column map)
FallbackParse(line) == ParseFallback(Flat(line), WideAfter(line))

\* column_map = None stands for the empty map
parse_result_line(line, column_map) ==
  IF DOMAIN column_map # {} THEN parse_result_line_with_columns(line, column_map)
  ELSE FallbackParse(line)

\* ------------------------------------------------------------------------
\* Fuzzy normalizers
\* ------------------------------------------------------------------------

\* The reference vocabularies, in iteration order: a canonical name and its
\* alternate spellings.  The repository's standard_events.py and
\* standard_schools.py; these two entries each stand for them.
STANDARD_EVENTS ==
  << [name |-> <<"Dash">>, alternatives |-> << <<"Sprint">> >>],
     [name |-> <<"Mile">>, alternatives |-> << <<"1600">> >>] >>

STANDARD_SCHOOLS ==
  << [name |-> <<"Lincoln", "HS">>, alternatives |-> << <<"Lincoln", "High">> >>],
     [name |-> <<"Lincoln">>, alternatives |-> << >>] >>

\* the scores (0..100) the model lets the similarity scorer return
ScoreValues == {0, 80, 81, 85, 86, 100}

\* raw is the canonical name of the entry or one of its alternates
Listed(entry, raw) ==
  raw = entry.name \/ \E k \in DOMAIN entry.alternatives : entry.alternatives[k] = raw

\* process.extractOne(event_name, possible_matches) for every entry: the
\* best score of the entry's spellings.  The default scorer gives 100 to
\* identical strings and to no others.
EventScores(raw) ==
  {sc \in [DOMAIN STANDARD_EVENTS -> ScoreValues] :
     \A e \in DOMAIN STANDARD_EVENTS : (sc[e] = 100) <=> Listed(STANDARD_EVENTS[e], raw)}

\* process.extractOne(school_name, possible_matches, scorer=fuzz.partial_ratio):
\* identical strings score 100, and so may others (a spelling that contains
\* the raw name, or is contained in it)
SchoolScores(raw) ==
  {sc \in [DOMAIN STANDARD_SCHOOLS -> ScoreValues] :
     \A e \in DOMAIN STANDARD_SCHOOLS : Listed(STANDARD_SCHOOLS[e], raw) => sc[e] = 100}

\* the acceptance thresholds
EventThreshold == 80
SchoolThreshold == 85

\* result[1] > best_score: the update test of the best-match loop
Improves(score, best_score) == score > best_score

RECURSIVE BestMatch(_, _, _, _)
\* the loop over the vocabulary from entry e on, best being
\* [best_match, best_score] so far
BestMatch(vocabulary, sc, e, best) ==
  IF e > Len(vocabulary) THEN best
  ELSE BestMatch(vocabulary, sc, e + 1,
         IF Improves(sc[e], best.best_score)
         THEN [best_match |-> vocabulary[e].name, best_score |-> sc[e]]
         ELSE best)

\* a faulty acceptance test, which also takes a score equal to the threshold
AcceptedAtThreshold(best_score, threshold) == best_score >= threshold

\* best_score > 80 / best_score > 85: the acceptance test
Accepted(best_score, threshold) == best_score > threshold

\* sc[e] is the score extractOne returns for entry e
normalize_event(event_name, review_bool, sc) ==
  LET best == BestMatch(STANDARD_EVENTS, sc, 1, [best_match |-> <<>>, best_score |-> 0])
  IN IF Accepted(best.best_score, EventThreshold)
     THEN <<best.best_match, review_bool>>
     ELSE <<event_name, TRUE>>

normalize_school(school_name, review_bool, sc) ==
  LET best == BestMatch(STANDARD_SCHOOLS, sc, 1, [best_match |-> <<>>, best_score |-> 0])
  IN IF Accepted(best.best_score, SchoolThreshold)
     THEN <<best.best_match, review_bool>>
     ELSE <<school_name, TRUE>>

\* ------------------------------------------------------------------------
\* Name splitter
\* ------------------------------------------------------------------------

\* tokens that contain a comma, and the text before it
CommaTok == {"Smith,"}
BeforeComma(tok) == IF tok = "Smith," THEN "Smith" ELSE tok

\* <<last_name, first_name>>
parse_name(full_name) ==
  LET C == {k \in DOMAIN full_name : full_name[k] \in CommaTok}
  IN IF C # {}
     THEN LET k == Min(C)
          IN << SubSeq(full_name, 1, k - 1) \o <<BeforeComma(full_name[k])>>,
                SubSeq(full_name, k + 1, Len(full_name)) >>
     ELSE IF Len(full_name) > 1 THEN << Tail(full_name), <<Head(full_name)>> >>
     ELSE IF Len(full_name) = 1 THEN << full_name, <<>> >>
     ELSE << <<>>, <<>> >>

\* ------------------------------------------------------------------------
\* parse_results: the context and the step taken for one line
\* ------------------------------------------------------------------------

\* the output columns, in order
columns ==
  << "Meet Date", "Edition", "Meet Name", "Meet Location", "Season", "URL", "Timing",
     "Event", "Round", "Gender", "Place", "Last Name", "First Name", "Grade", "School",
     "Mark", "Heat", "Wind", "Points", "Review" >>

\* the local variables of parse_results before the first line; review_flag
\* is not bound yet in the source and is never read before it is assigned
InitCtx ==
  [current_event |-> <<>>, current_gender |-> "", current_round |-> "",
   current_column_map |-> <<>>, review_flag |-> FALSE, rows |-> <<>>]

\* what the parser did with a line, for the ghost log: the strategy used
\* ("" when the parser was not called), its result, the review flag the
\* school normalizer returned and the row appended (<<>> when none)
NoParse == [strategy |-> "", result |-> EmptyResult, school_review |-> FALSE, row |-> <<>>]

\* the event branch
\* a faulty event branch, which carries the column map across the event line
OnEventKeepingMap(ctx, gender, n) ==
  [ctx EXCEPT !.current_gender = gender,
              !.current_event = n[1],
              !.review_flag = n[2],
              !.current_round = ""]

\* n is what normalize_event returned
OnEventFields(ctx, gender, n) ==
  [ctx EXCEPT !.current_gender = gender,
              !.current_event = n[1],
              !.review_flag = n[2],
              !.current_round = "",
              !.current_column_map = <<>>]

EventOf(t) == EventFields(t, EventMatch(t).groups)

OnEvent(ctx, t, sc) ==
  OnEventFields(ctx, EventOf(t).gender, normalize_event(EventOf(t).raw, FALSE, sc))

\* the round branch
OnRound(ctx, t) == [ctx EXCEPT !.current_round = extract_round_from_line(t)]

\* the header branch
OnHeader(ctx, t) == [ctx EXCEPT !.current_column_map = identify_column_order(t)]

\* a faulty divider branch, which forgets the column map
OnNoiseResetting(ctx) == [ctx EXCEPT !.current_column_map = <<>>]

\* an empty line and a divider line: i += 1; continue
OnNoise(ctx) == ctx

\* a faulty default, which writes the round as it stands
RoundAsIs(current_round) == current_round

\* current_round or "Final"
RoundOrFinal(current_round) == IF current_round # "" THEN current_round ELSE "Final"

\* the test under which a parsed result becomes a row
EmitsRow(result) == ~result.review /\ (result.name # <<>> \/ result.school # <<>>)

\* the row dictionary, the metadata merged in
MakeRow(ctx, result, names, normalized_school, review_flag, metadata) ==
  LET row == [c \in {"Event", "Round", "Gender", "Place", "Last Name", "First Name",
                     "Grade", "School", "Mark", "Heat", "Wind", "Points", "Review"} |->
                CASE c = "Event" -> ctx.current_event
                  [] c = "Round" -> RoundOrFinal(ctx.current_round)
                  [] c = "Gender" -> ctx.current_gender
                  [] c = "Place" -> result.place
                  [] c = "Last Name" -> names[1]
                  [] c = "First Name" -> names[2]
                  [] c = "Grade" -> result.grade
                  [] c = "School" -> normalized_school
                  [] c = "Mark" -> result.mark
                  [] c = "Heat" -> result.heat
                  [] c = "Wind" -> result.wind
                  [] c = "Points" -> result.points
                  [] c = "Review" -> (review_flag \/ result.review)]
  IN metadata @@ row

\* a faulty append, which puts the new row first
PrependRow(rows, row) == <<row>> \o rows

\* rows.append(row)
AppendRow(rows, row) == Append(rows, row)

\* last_name, first_name = parse_name(result["name"]) if result["name"] ...
NamesOf(result) ==
  IF result.name # <<>> THEN parse_name(result.name) ELSE << <<>>, <<>> >>

\* normalized_school, review_flag = normalize_school(...) if result["school"] ...
NormalizedSchool(result, sc) ==
  IF result.school # <<>> THEN normalize_school(result.school, result.review, sc)
  ELSE <<result.school, result.review>>

\* rows.append(row), review_flag being rebound by the school normalizer
OnRow(ctx, strategy, result, review_flag, row) ==
  [ctx |-> [ctx EXCEPT !.review_flag = review_flag, !.rows = AppendRow(@, row)],
   parse |-> [strategy |-> strategy, result |-> result,
              school_review |-> review_flag, row |-> <<row>>]]

\* n is <<normalized_school, review_flag>>
OnNormalized(ctx, strategy, result, n, metadata) ==
  OnRow(ctx, strategy, result, n[2],
        MakeRow(ctx, result, NamesOf(result), n[1], n[2], metadata))

\* the test on the parsed result, and the row when it passes
OnParsed(ctx, strategy, result, sc, metadata) ==
  IF ~EmitsRow(result)
  THEN [ctx |-> ctx, parse |-> [NoParse EXCEPT !.strategy = strategy, !.result = result]]
  ELSE OnNormalized(ctx, strategy, result, NormalizedSchool(result, sc), metadata)

\* the parser parse_result_line chooses for the current column map
Strategy(current_column_map) ==
  IF DOMAIN current_column_map # {} THEN "columns" ELSE "fallback"

\* the candidate-result branch: the new context and what was done
OnResult(ctx, line, sc, metadata) ==
  IF ctx.current_event = <<>> THEN [ctx |-> ctx, parse |-> NoParse]
  ELSE OnParsed(ctx, Strategy(ctx.current_column_map),
                parse_result_line(line, ctx.current_column_map), sc, metadata)

SchoolOfEmitted(result) == IF EmitsRow(result) THEN result.school ELSE <<>>

\* the school name the result branch hands to normalize_school, <<>> when
\* it does not call it
SchoolToNormalize(ctx, line) ==
  IF ctx.current_event = <<>> THEN <<>>
  ELSE SchoolOfEmitted(parse_result_line(line, ctx.current_column_map))

\* writer.writeheader(); writer.writerows(rows): the lines of the CSV file,
\* each the values of the columns in order, Review written as a string
CsvOf(rows) ==
  << columns >> \o
  [k \in DOMAIN rows |->
     [c \in DOMAIN columns |->
        IF columns[c] = "Review"
        THEN IF rows[k]["Review"] THEN "True" ELSE "False"
        ELSE rows[k][columns[c]]]]

\* ------------------------------------------------------------------------
\* State
\* ------------------------------------------------------------------------

VARIABLES
  pc,           \* per request: where the POST handler stands
  ctx,          \* per request: the local variables of parse_results
  tmp_file,     \* per request: whether its temporary input file exists
  output_file,  \* per request: the value parse_results returned to the handler
  response,     \* per request: the response of the handler, <<>> before it returns
  output_csv,   \* the content of the file 'output.csv', NoFile when absent
  log,          \* per request, ghost: one entry per line read, in order
  arg,          \* the arguments of a function under check (SpecNorm, SpecParse)
  ret           \* its result, <<>> before the call

vars == <<pc, ctx, tmp_file, output_file, response, output_csv, log, arg, ret>>

NoFile == << "no such file" >>
None == "None"

\* the form fields of a request
Metadata(r) ==
  [c \in {"Meet Date", "Edition", "Meet Name", "Meet Location", "Season", "URL", "Timing"} |->
     IF c = "Meet Name" THEN (IF r = 1 THEN "Meet A" ELSE "Meet B") ELSE "x"]

\* the lines an uploaded file is made of
SampleLines ==
  { << >>,
    << <<"=====">> >>,
    << <<"HS", "9.58">> >>,
    << <<"Event", "1", "Girls", "Dash">> >>,
    << <<"Quux", "Boys">> >>,
    << <<"Prelims">> >>,
    << <<"Place", "Name", "School", "Time">> >>,
    << <<"Place", "Name", "School", "Finals">> >>,
    << <<"1">>, <<"John", "Smith">>, <<"Lincoln", "HS">>, <<"9.58">> >>,
    << <<"1">>, <<"John", "Smith">>, <<"Lincoln", "HS">>, <<"abc">> >>,
    << <<"1", "HS", "RELAY", "9.58", "1">> >>,
    << <<"1", "Smith,", "John", "1", "HS", "9.58">> >> }

\* the lines of an uploaded file when two requests run
ConcLines ==
  { << >>,
    << <<"=====">> >>,
    << <<"Event", "1", "Girls", "Dash">> >>,
    << <<"Prelims">> >>,
    << <<"Place", "Name", "School", "Time">> >>,
    << <<"1">>, <<"John", "Smith">>, <<"Lincoln", "HS">>, <<"9.58">> >> }

Lines == IF Cardinality(DOMAIN pc) = 1 THEN SampleLines ELSE ConcLines
LineBound == IF Cardinality(DOMAIN pc) = 1 THEN MaxLines ELSE MaxConcLines

\* the requests there may be, and those there are
RequestIds == {1, 2}
Live(r) == r \in DOMAIN pc

InitRequests(R) ==
  /\ pc = [r \in R |-> "start"]
  /\ ctx = [r \in R |-> InitCtx]
  /\ tmp_file = [r \in R |-> FALSE]
  /\ output_file = [r \in R |-> "unset"]
  /\ response = [r \in R |-> <<>>]
  /\ log = [r \in R |-> <<>>]
  /\ output_csv = NoFile

\* one request
Init == InitRequests({1}) /\ arg = <<>> /\ ret = <<>>

\* two requests
InitConc == InitRequests({1, 2}) /\ arg = <<>> /\ ret = <<>>

\* ------------------------------------------------------------------------
\* The handler and the loop of parse_results
\* ------------------------------------------------------------------------

\* the upload is copied to a fresh temporary file and parse_results is called
SaveUpload(r) ==
  /\ Live(r)
  /\ pc[r] = "start"
  /\ tmp_file' = [tmp_file EXCEPT ![r] = TRUE]
  /\ pc' = [pc EXCEPT ![r] = "loop"]
  /\ UNCHANGED <<ctx, output_file, response, output_csv, log, arg, ret>>

\* one iteration of the while loop: the line read, its class, the context
\* after it and what the result branch did
Iterate(r, line, kind, new_ctx, parse) ==
  /\ ctx' = [ctx EXCEPT ![r] = new_ctx]
  /\ log' = [log EXCEPT ![r] = Append(@, [line |-> line, kind |-> kind,
                                           ctx |-> new_ctx, parse |-> parse])]
  /\ UNCHANGED <<pc, tmp_file, output_file, response, output_csv, arg, ret>>

IterateResult(r, line, o) == Iterate(r, line, "result", o.ctx, o.parse)

CanRead(r) == Live(r) /\ pc[r] = "loop" /\ Len(log[r]) < LineBound

EmptyLine(r) ==
  /\ CanRead(r)
  /\ \E line \in Lines :
       /\ Classify(line) = "empty"
       /\ Iterate(r, line, "empty", OnNoise(ctx[r]), NoParse)

EventLine(r) ==
  /\ CanRead(r)
  /\ \E line \in Lines :
       /\ Classify(line) = "event"
       /\ \E sc \in EventScores(EventFields(Flat(line), EventMatch(Flat(line)).groups).raw) :
            Iterate(r, line, "event", OnEvent(ctx[r], Flat(line), sc), NoParse)

RoundLine(r) ==
  /\ CanRead(r)
  /\ \E line \in Lines :
       /\ Classify(line) = "round"
       /\ Iterate(r, line, "round", OnRound(ctx[r], Flat(line)), NoParse)

HeaderLine(r) ==
  /\ CanRead(r)
  /\ \E line \in Lines :
       /\ Classify(line) = "header"
       /\ Iterate(r, line, "header", OnHeader(ctx[r], Flat(line)), NoParse)

NoiseLine(r) ==
  /\ CanRead(r)
  /\ \E line \in Lines :
       /\ Classify(line) = "noise"
       /\ Iterate(r, line, "noise", OnNoise(ctx[r]), NoParse)

ResultLine(r) ==
  /\ CanRead(r)
  /\ \E line \in Lines :
       /\ Classify(line) = "result"
       /\ \E sc \in SchoolScores(SchoolToNormalize(ctx[r], line)) :
            IterateResult(r, line, OnResult(ctx[r], line, sc, Metadata(r)))

\* the end of the file: the rows are written to 'output.csv'
WriteCsv(r) ==
  /\ Live(r)
  /\ pc[r] = "loop"
  /\ output_csv' = CsvOf(ctx[r].rows)
  /\ pc' = [pc EXCEPT ![r] = "written"]
  /\ UNCHANGED <<ctx, tmp_file, output_file, response, log, arg, ret>>

\* the value parse_results returns: it ends without a return statement
ReturnValue == None

\* output_file = parse_results(tmp_path, metadata)
ReturnFromParse(r) ==
  /\ Live(r)
  /\ pc[r] = "written"
  /\ output_file' = [output_file EXCEPT ![r] = ReturnValue]
  /\ pc' = [pc EXCEPT ![r] = "cleanup"]
  /\ UNCHANGED <<ctx, tmp_file, response, output_csv, log, arg, ret>>

\* os.unlink(tmp_path)
CleanupTmp(r) ==
  /\ Live(r)
  /\ pc[r] = "cleanup"
  /\ tmp_file' = [tmp_file EXCEPT ![r] = FALSE]
  /\ pc' = [pc EXCEPT ![r] = "open"]
  /\ UNCHANGED <<ctx, output_file, response, output_csv, log, arg, ret>>

ErrorResponse == [success |-> FALSE, content |-> <<>>]

\* open(output_file), read, unlink, respond; any exception gives the error
\* response.  open(None) raises TypeError, a missing file FileNotFoundError.
ReadOutput(r) ==
  /\ Live(r)
  /\ pc[r] = "open"
  /\ pc' = [pc EXCEPT ![r] = "done"]
  /\ IF output_file[r] = None \/ output_csv = NoFile
     THEN /\ response' = [response EXCEPT ![r] = <<ErrorResponse>>]
          /\ UNCHANGED output_csv
     ELSE /\ response' = [response EXCEPT ![r] = << [success |-> TRUE, content |-> output_csv] >>]
          /\ output_csv' = NoFile
  /\ UNCHANGED <<ctx, tmp_file, output_file, log, arg, ret>>

Next ==
  \E r \in RequestIds :
    \/ SaveUpload(r)
    \/ EmptyLine(r)
    \/ EventLine(r)
    \/ RoundLine(r)
    \/ HeaderLine(r)
    \/ NoiseLine(r)
    \/ ResultLine(r)
    \/ WriteCsv(r)
    \/ ReturnFromParse(r)
    \/ CleanupTmp(r)
    \/ ReadOutput(r)

\* one conversion request
Spec == Init /\ [][Next]_vars

\* two conversion requests, their steps interleaved
SpecConc == InitConc /\ [][Next]_vars


\* ------------------------------------------------------------------------
\* The normalizers on their own
\* ------------------------------------------------------------------------

\* the names handed to the normalizers: every spelling of the vocabulary
\* and a name that is in neither
EventNames == {<<"Dash">>, <<"Sprint">>, <<"Mile">>, <<"1600">>, <<"Quux">>}
SchoolNames == {<<"Lincoln", "HS">>, <<"Lincoln", "High">>, <<"Lincoln">>, <<"Quux">>}

\* a call of normalize_event or of normalize_school: its arguments and the
\* scores the scorer gives
NormArgs ==
  {[fn |-> "event", name |-> n, review_bool |-> b, sc |-> sc] :
     n \in EventNames, b \in BOOLEAN, sc \in UNION {EventScores(m) : m \in EventNames}}
  \cup
  {[fn |-> "school", name |-> n, review_bool |-> b, sc |-> sc] :
     n \in SchoolNames, b \in BOOLEAN, sc \in UNION {SchoolScores(m) : m \in SchoolNames}}

InitNorm ==
  /\ InitRequests({})
  /\ arg \in {a \in NormArgs :
                a.sc \in (IF a.fn = "event" THEN EventScores(a.name) ELSE SchoolScores(a.name))}
  /\ ret = <<>>

NormalizeEvent ==
  /\ ret = <<>>
  /\ arg.fn = "event"
  /\ ret' = << normalize_event(arg.name, arg.review_bool, arg.sc) >>
  /\ UNCHANGED <<pc, ctx, tmp_file, output_file, response, output_csv, log, arg>>

NormalizeSchool ==
  /\ ret = <<>>
  /\ arg.fn = "school"
  /\ ret' = << normalize_school(arg.name, arg.review_bool, arg.sc) >>
  /\ UNCHANGED <<pc, ctx, tmp_file, output_file, response, output_csv, log, arg>>

NextNorm == NormalizeEvent \/ NormalizeSchool

\* one call of a normalizer
SpecNorm == InitNorm /\ [][NextNorm]_vars

\* ------------------------------------------------------------------------
\* parse_result_line on its own
\* ------------------------------------------------------------------------

\* the tokens of the generated result lines
ParseTok == {"1", "John", "HS", "RELAY", "9.58", "+1.5"}

\* the token sequences of 1..n tokens
TokSeqs(n) == UNION {[1..k -> ParseTok] : k \in 1..n}

\* the line of tokens t with a two-space gap after token j (none when j = 0)
SplitAt(t, j) == IF j = 0 THEN <<t>> ELSE << SubSeq(t, 1, j), SubSeq(t, j + 1, Len(t)) >>

\* the lines of at most n tokens, with at most one two-space gap
ParseLines(n) == UNION {{SplitAt(t, j) : j \in 0..(Len(t) - 1)} : t \in TokSeqs(n)}

\* column_map: None, or the map of the header "Place Name School Time"
ParseMaps == {<<>>, identify_column_order(<<"Place", "Name", "School", "Time">>)}

InitParse ==
  /\ InitRequests({})
  /\ arg \in [line : ParseLines(MaxToks), column_map : ParseMaps]
  /\ ret = <<>>

ParseLine ==
  /\ ret = <<>>
  /\ ret' = << parse_result_line(arg.line, arg.column_map) >>
  /\ UNCHANGED <<pc, ctx, tmp_file, output_file, response, output_csv, log, arg>>

NextParse == ParseLine

\* one call of parse_result_line
SpecParse == InitParse /\ [][NextParse]_vars

\* ------------------------------------------------------------------------
\* Properties of the parse_results loop (Spec)
\* ------------------------------------------------------------------------

\* the context a request had before it read its k-th line
CtxBefore(r, k) == IF k = 1 THEN InitCtx ELSE log[r][k - 1].ctx

\* the lines a request has read so far
Read(r) == DOMAIN log[r]

\* the entries of kind `kind` among lines i..j of request r
Between(r, i, j, kind) == {m \in i..j : m \in Read(r) /\ log[r][m].kind = kind}

\* the last event line before line k (0 when there is none)
LastEvent(r, k) ==
  IF Between(r, 1, k - 1, "event") = {} THEN 0
  ELSE CHOOSE m \in Between(r, 1, k - 1, "event") :
         \A j \in Between(r, 1, k - 1, "event") : j <= m

\* the last round line between line i and line k, both excluded (0 when none)
LastRound(r, i, k) ==
  IF Between(r, i + 1, k - 1, "round") = {} THEN 0
  ELSE CHOOSE m \in Between(r, i + 1, k - 1, "round") :
         \A j \in Between(r, i + 1, k - 1, "round") : j <= m

\* the k-th line of request r gave a row
GaveRow(r, k) == log[r][k].parse.row # <<>>

\* C1: a line that reaches the candidate-result branch gives a row if and
\* only if current_event is non-empty and the parsed result has a name or a
\* school, whatever its review flag
C1_RowIffEventAndNameOrSchool ==
  \A r \in DOMAIN log : \A k \in Read(r) :
    log[r][k].kind = "result" =>
      (GaveRow(r, k) <=>
         /\ CtxBefore(r, k).current_event # <<>>
         /\ \/ log[r][k].parse.result.name # <<>>
            \/ log[r][k].parse.result.school # <<>>)

\* C2: the Review field of a row is the OR of the parser's review flag, the
\* flag normalize_event returned for the event line of the row's event and
\* the flag normalize_school returned for the row's school
C2_ReviewIsOrOfThree ==
  \A r \in DOMAIN log : \A k \in Read(r) :
    (GaveRow(r, k) /\ LastEvent(r, k) # 0) =>
      log[r][k].parse.row[1]["Review"] =
        (\/ log[r][k].parse.result.review
         \/ log[r][LastEvent(r, k)].ctx.review_flag
         \/ log[r][k].parse.school_review)

\* C3: an event line leaves current_round unset and current_column_map
\* empty; they stay so until a round line, a header line; and a result line
\* parsed with no header line since the last event line is parsed by the
\* fallback strategy
C3_EventResetsRoundAndColumns ==
  \A r \in DOMAIN log : \A k \in Read(r) :
    log[r][k].kind = "event" =>
      /\ log[r][k].ctx.current_round = ""
      /\ DOMAIN log[r][k].ctx.current_column_map = {}
      /\ \A j \in Read(r) :
           j > k =>
             /\ Between(r, k + 1, j, "round") = {} => log[r][j].ctx.current_round = ""
             /\ Between(r, k + 1, j, "header") = {} =>
                  /\ DOMAIN log[r][j].ctx.current_column_map = {}
                  /\ log[r][j].parse.strategy \in {"", "fallback"}

\* a result line is parsed by the fallback strategy, and gives a row, after
\* an event line before which a column map was active
C3_Witness ==
  \E r \in DOMAIN log : \E k \in Read(r) : \E j \in Read(r) :
    /\ log[r][k].kind = "event"
    /\ DOMAIN CtxBefore(r, k).current_column_map # {}
    /\ j > k
    /\ log[r][j].kind = "result"
    /\ log[r][j].parse.strategy = "fallback"
    /\ GaveRow(r, j)

\* C4: an empty line and a divider line leave current_event,
\* current_gender, current_round, current_column_map and the rows unchanged
C4_NoiseChangesNothing ==
  \A r \in DOMAIN log : \A k \in Read(r) :
    log[r][k].kind \in {"empty", "noise"} =>
      /\ log[r][k].ctx.current_event = CtxBefore(r, k).current_event
      /\ log[r][k].ctx.current_gender = CtxBefore(r, k).current_gender
      /\ log[r][k].ctx.current_round = CtxBefore(r, k).current_round
      /\ log[r][k].ctx.current_column_map = CtxBefore(r, k).current_column_map
      /\ log[r][k].ctx.rows = CtxBefore(r, k).rows
      /\ ~GaveRow(r, k)

\* a divider line is read when an event, a round, a column map and a row
\* are there to lose
C4_Witness ==
  \E r \in DOMAIN log : \E k \in Read(r) :
    /\ log[r][k].kind = "noise"
    /\ CtxBefore(r, k).current_event # <<>>
    /\ \/ DOMAIN CtxBefore(r, k).current_column_map # {}
       \/ CtxBefore(r, k).current_round # ""
       \/ CtxBefore(r, k).rows # <<>>

RECURSIVE LogRows(_)
\* the rows the lines of a log gave, in the order of the lines
LogRows(l) ==
  IF l = <<>> THEN <<>>
  ELSE LogRows(SubSeq(l, 1, Len(l) - 1)) \o l[Len(l)].parse.row

\* rows is the same list, or the same list with one more row at its end
AppendedOnly(old, new) ==
  /\ Len(new) \in {Len(old), Len(old) + 1}
  /\ SubSeq(new, 1, Len(old)) = old

\* C5: the rows are the rows of the lines in the order of the lines, a line
\* gives at most one row, and a step of the loop leaves the rows there are
\* as they are and where they are
C5_RowsInInputOrder ==
  /\ [](\A r \in DOMAIN ctx :
          /\ ctx[r].rows = LogRows(log[r])
          /\ \A k \in Read(r) : Len(log[r][k].parse.row) <= 1)
  /\ [][\A r \in DOMAIN ctx : AppendedOnly(ctx[r].rows, ctx'[r].rows)]_vars

\* two lines have given two different rows
C5_Witness ==
  \E r \in DOMAIN ctx :
    /\ Len(ctx[r].rows) = 2
    /\ ctx[r].rows[1] # ctx[r].rows[2]
    /\ \E k \in Read(r) : \E j \in Read(r) :
         k < j /\ log[r][k].parse.row = <<ctx[r].rows[1]>>
               /\ log[r][j].parse.row = <<ctx[r].rows[2]>>

\* C10: a row carries the event and the gender the last event line set and
\* the round the last round line since then set, "Final" when there is
\* none; round, header and result lines leave event and gender alone
C10_RowIsSnapshotOfContext ==
  \A r \in DOMAIN log : \A k \in Read(r) :
    /\ GaveRow(r, k) =>
         /\ LastEvent(r, k) # 0
         /\ log[r][k].parse.row[1]["Event"] = log[r][LastEvent(r, k)].ctx.current_event
         /\ log[r][k].parse.row[1]["Gender"] = log[r][LastEvent(r, k)].ctx.current_gender
         /\ log[r][k].parse.row[1]["Round"] =
              IF LastRound(r, LastEvent(r, k), k) = 0 THEN "Final"
              ELSE extract_round_from_line(Flat(log[r][LastRound(r, LastEvent(r, k), k)].line))
    /\ log[r][k].kind \in {"round", "header", "result"} =>
         /\ log[r][k].ctx.current_event = CtxBefore(r, k).current_event
         /\ log[r][k].ctx.current_gender = CtxBefore(r, k).current_gender

\* a row is given after an event line and a round line, with that round
C10_Witness ==
  \E r \in DOMAIN log : \E k \in Read(r) :
    /\ GaveRow(r, k)
    /\ LastRound(r, LastEvent(r, k), k) # 0
    /\ log[r][k].parse.row[1]["Round"] # "Final"
    /\ log[r][k].parse.row[1]["Event"] # <<>>

\* ------------------------------------------------------------------------
\* Properties of the normalizers (SpecNorm)
\* ------------------------------------------------------------------------

\* the vocabulary and the threshold of the normalizer called
VocabularyOf(fn) == IF fn = "event" THEN STANDARD_EVENTS ELSE STANDARD_SCHOOLS
ThresholdOf(fn) == IF fn = "event" THEN EventThreshold ELSE SchoolThreshold

\* the best score over the whole vocabulary
MaxScore(sc) == CHOOSE m \in {sc[e] : e \in DOMAIN sc} : \A e \in DOMAIN sc : sc[e] <= m

\* the canonical names of the entries that reach the best score
BestNames(fn, sc) == {VocabularyOf(fn)[e].name : e \in {d \in DOMAIN sc : sc[d] = MaxScore(sc)}}

\* C6: a normalizer returns a best-scoring canonical name and the caller's
\* review flag exactly when the best score over the vocabulary is strictly
\* greater than its threshold (80 for events, 85 for schools), and the raw
\* name with review = TRUE otherwise
C6_AcceptedIffAboveThreshold ==
  ret # <<>> =>
    IF MaxScore(arg.sc) > ThresholdOf(arg.fn)
    THEN ret[1][1] \in BestNames(arg.fn, arg.sc) /\ ret[1][2] = arg.review_bool
    ELSE ret[1] = <<arg.name, TRUE>>

\* an event name whose best score is exactly 80 was rejected, the caller's
\* flag being FALSE
C6_Witness ==
  /\ ret # <<>>
  /\ arg.fn = "event"
  /\ MaxScore(arg.sc) = EventThreshold
  /\ arg.review_bool = FALSE
  /\ ret[1] = <<arg.name, TRUE>>

\* the canonical names of a vocabulary
CanonicalNames(fn) == {VocabularyOf(fn)[e].name : e \in DOMAIN VocabularyOf(fn)}

\* C7: normalizing a canonical name returns that name and the caller's
\* review flag, also when an entry iterated earlier reaches the same score
C7_IdempotentOnCanonical ==
  (ret # <<>> /\ arg.name \in CanonicalNames(arg.fn)) =>
    ret[1] = <<arg.name, arg.review_bool>>

\* ------------------------------------------------------------------------
\* Properties of the fallback parser (SpecParse)
\* ------------------------------------------------------------------------

\* the words a team name is made of
TeamTok == {"John", "HS", "RELAY"}

\* the position of the time in a relay line: a place, a team name with
\* the word RELAY in it, a time, at most two integers (0 when the tokens
\* are not of that form)
RelayTime(t) ==
  IF \E m \in 3..Len(t) :
       /\ t[1] \in DigitsTok
       /\ t[m] \in MarkTok
       /\ \A k \in 2..(m - 1) : t[k] \in TeamTok
       /\ \E k \in 2..(m - 1) : t[k] \in RelayTok
       /\ Len(t) - m <= 2
       /\ \A k \in (m + 1)..Len(t) : t[k] \in DigitsTok
  THEN CHOOSE m \in 3..Len(t) : t[m] \in MarkTok
  ELSE 0

\* the relay form of such a line, its time at position m
RelayForm(t, m) ==
  [EmptyResult EXCEPT !.place = <<t[1]>>,
                      !.school = SubSeq(t, 2, m - 1),
                      !.mark = <<t[m]>>,
                      !.heat = IF Len(t) > m THEN <<t[m + 1]>> ELSE <<>>,
                      !.points = IF Len(t) > m + 1 THEN <<t[m + 2]>> ELSE <<>>]

\* C8: in the fallback strategy a relay line that one of the three patterns
\* matches is mapped in relay form (no name, no grade, school the team
\* name, mark the time, heat and points the trailing integers), whichever
\* pattern matches first
C8_RelayLineInRelayForm ==
  (/\ ret # <<>>
   /\ DOMAIN arg.column_map = {}
   /\ RelayTime(Flat(arg.line)) # 0
   /\ FirstPattern(Flat(arg.line), WideAfter(arg.line)) # 0) =>
    ret[1] = RelayForm(Flat(arg.line), RelayTime(Flat(arg.line)))

\* ------------------------------------------------------------------------
\* Properties of concurrent requests (SpecConc)
\* ------------------------------------------------------------------------

HeaderTok == {"Place", "Name", "School", "Time", "Finals", "Year", "abc"}

\* the header lines of 1..n tokens
HeaderLines(n) == UNION {[1..k -> HeaderTok] : k \in 1..n}

InitHeader ==
  /\ InitRequests({})
  /\ arg \in HeaderLines(MaxHeaderToks)
  /\ ret = <<>>

IdentifyColumns ==
  /\ ret = <<>>
  /\ ret' = << identify_column_order(arg) >>
  /\ UNCHANGED <<pc, ctx, tmp_file, output_file, response, output_csv, log, arg>>

NextHeader == IdentifyColumns

\* one call of identify_column_order
SpecHeader == InitHeader /\ [][NextHeader]_vars

\* the position (from 0) of the first token of the header that names field f
FirstPosition(headers, f) ==
  Min({k \in DOMAIN headers : HeaderField(headers[k]) = f}) - 1

\* C11: identify_column_order maps every field the header names to the
\* position of the first token that names it; a later synonym of the same
\* field does not overwrite it
C11_FirstOccurrenceWins ==
  ret # <<>> =>
    \A f \in DOMAIN ret[1] : ret[1][f] = FirstPosition(arg, f)

\* ------------------------------------------------------------------------
\* Properties of the column-guided parser (SpecParse)
\* ------------------------------------------------------------------------

\* the fields of the column map of a call, by position
FieldsOf(a) == SortedColumns(a.column_map)

\* the state in which the while loop of a column-guided call ends
WalkOf(a) == ColumnWalk(FieldsOf(a), 0, a.line, 0, EmptyResult)

\* the call is column-guided, reaches the loop, and the loop ends on a
\* segment that neither matches its field nor can be split to match it
WalkFailed(a) ==
  /\ DOMAIN a.column_map # {}
  /\ Len(Flat(a.line)) >= 3
  /\ WalkOf(a).result.review

\* C12: when a segment neither matches the current field nor can be
\* recovered by a prefix split, the line is marked for review, the fields
\* assigned before keep their values and every field at or after the
\* failing position stays empty
C12_FailureAbortsAssignment ==
  (ret # <<>> /\ WalkFailed(arg)) =>
    /\ ret[1].review
    /\ \A k \in 1..Len(FieldsOf(arg)) :
         ret[1][FieldsOf(arg)[k]] =
           IF k <= WalkOf(arg).i THEN WalkOf(arg).result[FieldsOf(arg)[k]] ELSE <<>>

\* ------------------------------------------------------------------------
\* Properties of the individual forms of the fallback parser (SpecParse)
\* ------------------------------------------------------------------------

\* the call takes the fallback strategy, the line has no word RELAY and
\* pattern n is the first to match it
FirstMatchIs(a, n) ==
  /\ DOMAIN a.column_map = {}
  /\ \A k \in DOMAIN Flat(a.line) : Flat(a.line)[k] \notin RelayTok
  /\ FirstPattern(Flat(a.line), WideAfter(a.line)) = n

\* what pattern 2 captures in the line of a call
Captured2(a) == Pattern2Groups(Flat(a.line), FirstTriple(Pattern2Candidates(Flat(a.line))))

IsInteger(tok) == tok \in DigitsTok
IsSignedDecimal(tok) == tok \in WindTok

\* the k-th token of a sequence as a field value, <<>> when there is none
Nth(s, k) == IF k <= Len(s) THEN <<s[k]>> ELSE <<>>

\* the last token of a sequence as a field value, <<>> when there is none
Last(s) == IF s = <<>> THEN <<>> ELSE <<s[Len(s)]>>

\* C13: a line without the word RELAY that pattern 2 is the first to match
\* is mapped as an individual result: name, school and mark are the
\* captured ones, the integers of the remainder fill heat then points and
\* a signed decimal fills wind
C13_LooseFormIsIndividual ==
  (ret # <<>> /\ FirstMatchIs(arg, 2)) =>
    /\ ret[1].place = Captured2(arg)[1]
    /\ ret[1].name = Captured2(arg)[2]
    /\ ret[1].school = Captured2(arg)[3]
    /\ ret[1].mark = Captured2(arg)[4]
    /\ ret[1].grade = <<>>
    /\ ret[1].heat = Nth(SelectSeq(Captured2(arg)[5], IsInteger), 1)
    /\ ret[1].points = Nth(SelectSeq(Captured2(arg)[5], IsInteger), 2)
    /\ ret[1].wind = Last(SelectSeq(Captured2(arg)[5], IsSignedDecimal))
    /\ ~ret[1].review

\* what pattern 1 captures in the line of a call
Captured1(a) ==
  Pattern1Groups(Flat(a.line), FirstTriple(Pattern1Candidates(Flat(a.line), WideAfter(a.line))))

\* C14: when pattern 1 matches, every field is the value captured for it:
\* place, name, grade, school, mark, heat, wind and points
C14_FullFormFieldsAsCaptured ==
  (ret # <<>> /\ FirstMatchIs(arg, 1)) =>
    /\ ret[1].place = Captured1(arg)[1]
    /\ ret[1].name = Captured1(arg)[2]
    /\ ret[1].grade = Captured1(arg)[3]
    /\ ret[1].school = Captured1(arg)[4]
    /\ ret[1].mark = Captured1(arg)[5]
    /\ ret[1].heat = Captured1(arg)[6]
    /\ ret[1].wind = Captured1(arg)[7]
    /\ ret[1].points = Captured1(arg)[8]
    /\ ~ret[1].review

\* ------------------------------------------------------------------------
\* The order of the round test and the header test (Spec)
\* ------------------------------------------------------------------------

\* a line that is no event line and passes both the round test and the
\* header test
RoundAndHeader(line) ==
  /\ Flat(line) # <<>>
  /\ ~EventMatch(Flat(line)).matched
  /\ extract_round_from_line(Flat(line)) # ""
  /\ is_header_line(Flat(line))

\* C15: a line that passes both the round test and the header test is
\* consumed as a round line: it sets current_round and leaves
\* current_column_map as it was, so the result lines after it, up to the
\* next event or header line, are parsed with the column map there was
\* before it, by the fallback strategy when that map is empty
C15_RoundTestBeforeHeaderTest ==
  \A r \in DOMAIN log : \A k \in Read(r) :
    RoundAndHeader(log[r][k].line) =>
      /\ log[r][k].kind = "round"
      /\ log[r][k].ctx.current_round = extract_round_from_line(Flat(log[r][k].line))
      /\ log[r][k].ctx.current_column_map = CtxBefore(r, k).current_column_map
      /\ \A j \in Read(r) :
           (/\ j > k
            /\ Between(r, k + 1, j, "event") = {}
            /\ Between(r, k + 1, j, "header") = {}
            /\ log[r][j].parse.strategy # "") =>
             log[r][j].parse.strategy = Strategy(CtxBefore(r, k).current_column_map)

\* a header-like line titled 'Finals' was taken as a round line and the
\* result line after it gave a row by the fallback strategy, round "Final"
C15_Witness ==
  \E r \in DOMAIN log : \E k \in Read(r) : \E j \in Read(r) :
    /\ RoundAndHeader(log[r][k].line)
    /\ log[r][k].kind = "round"
    /\ DOMAIN identify_column_order(Flat(log[r][k].line)) # {}
    /\ j > k
    /\ GaveRow(r, j)
    /\ log[r][j].parse.strategy = "fallback"
    /\ log[r][j].parse.row[1]["Round"] = "Final"

\* ------------------------------------------------------------------------
\* The response of the handler (Spec)
\* ------------------------------------------------------------------------

\* C16: when the handler of a request has returned, its response is the
\* CSV content parse_results wrote for the request, not the error
\* response, and the temporary input file is deleted
C16_HandlerReturnsCsv ==
  \A r \in DOMAIN pc :
    pc[r] = "done" =>
      /\ response[r] = << [success |-> TRUE, content |-> CsvOf(ctx[r].rows)] >>
      /\ ~tmp_file[r]

=============================================================================
